---- MODULE Spec2Model ----
(***************************************************************************)
(* Model of the drone-downstream plugin (internal/plugin/impl.go):         *)
(* Plugin.Validate, Plugin.Execute with its per-target tick loop, and      *)
(* blockUntilBuildIsFinished.  Strings that the code splits or parses are  *)
(* sequences of one-character strings; the remote drone client is an       *)
(* environment whose answers are chosen nondeterministically, and every    *)
(* call made to it is appended to the history variable calls.              *)
(***************************************************************************)
EXTENDS Integers, Sequences, FiniteSets, TLC

VARIABLES
    settings,       \* Plugin.settings (Settings struct) plus pipeline host/proto
    pc,             \* where the run is: validate, entry, poll, triggered,
                    \* block, done (Execute returned), crashed
    err,            \* what Validate/Execute returned ("running" until it returns)
    idx,            \* index into settings.Repos of the entry being processed
    waiting,        \* local variable waiting of Execute
    timeoutFired,   \* a value is ready on the channel of time.After(Timeout)
    tickReady,      \* a value is ready on the channel of time.Tick(1s)
    ticks,          \* number of ticks the tick loop handled for this entry
    newBuild,       \* Number of the build returned by the successful trigger
    blockTimeoutFired, \* a value is ready on time.After(BlockTimeout)
    blockTickReady, \* a value is ready on time.Tick(10s) of the blocker
    blockTicks,     \* number of status checks the blocker made
    sigPending,     \* a signal is buffered in the channel sigs
    staleSigs,      \* a closed sigs channel is still registered with signal.Notify
    panicking,      \* the signal goroutine panicked sending on a closed channel
    triggered,      \* history: the entries whose trigger succeeded, in order
    blockResult,    \* history: how each call of the blocker ended
    calls           \* history: the remote client calls made by the loop that
                    \* is running (the tick loop of the current entry, or the
                    \* loop of the blocker), in order

vars == <<settings, pc, err, idx, waiting, timeoutFired, tickReady, ticks,
          newBuild, blockTimeoutFired, blockTickReady, blockTicks, sigPending,
          staleSigs, panicking, triggered, blockResult, calls>>

(***************************************************************************)
(* Bounds of the model.                                                    *)
(***************************************************************************)
MaxTicks == 3
MaxBlockTicks == 2

(***************************************************************************)
(* Strings as sequences of characters.                                     *)
(***************************************************************************)
Digits == {"0", "1", "2", "3", "4", "5", "6", "7", "8", "9"}

DigitVal(c) ==
    CASE c = "0" -> 0 [] c = "1" -> 1 [] c = "2" -> 2 [] c = "3" -> 3
      [] c = "4" -> 4 [] c = "5" -> 5 [] c = "6" -> 6 [] c = "7" -> 7
      [] c = "8" -> 8 [] c = "9" -> 9

\* index of the first occurrence of sep in s, 0 when there is none
IndexOf(s, sep) ==
    IF \E i \in 1..Len(s) : s[i] = sep
    THEN CHOOSE i \in 1..Len(s) : s[i] = sep /\ \A j \in 1..(i-1) : s[j] # sep
    ELSE 0

\* strings.Split(s, sep) for a one-character separator
RECURSIVE Split(_, _)
Split(s, sep) ==
    LET i == IndexOf(s, sep) IN
    IF i = 0 THEN <<s>>
    ELSE <<SubSeq(s, 1, i - 1)>> \o Split(SubSeq(s, i + 1, Len(s)), sep)

\* strconv.Atoi succeeds: an optional sign followed by at least one digit
AtoiOk(s) ==
    LET body == IF Len(s) > 0 /\ s[1] \in {"+", "-"} THEN Tail(s) ELSE s IN
    /\ Len(body) > 0
    /\ \A i \in 1..Len(body) : body[i] \in Digits

RECURSIVE DigitsValue(_)
DigitsValue(s) ==
    IF Len(s) = 0 THEN 0
    ELSE 10 * DigitsValue(SubSeq(s, 1, Len(s) - 1)) + DigitVal(s[Len(s)])

\* the value strconv.Atoi returns; 0 when it fails
Atoi(s) ==
    IF ~AtoiOk(s) THEN 0
    ELSE IF s[1] = "-" THEN 0 - DigitsValue(Tail(s))
    ELSE IF s[1] = "+" THEN DigitsValue(Tail(s))
    ELSE DigitsValue(s)

parseRepoBranch(repo) ==
    LET parts  == Split(repo, "@")
        branch == IF Len(parts) = 2 THEN parts[2] ELSE <<>>
        repo2  == IF Len(parts) = 2 THEN parts[1] ELSE repo
        parts2 == Split(repo2, "/")
    IN  [owner  |-> IF Len(parts2) = 2 THEN parts2[1] ELSE <<>>,
         name   |-> IF Len(parts2) = 2 THEN parts2[2] ELSE <<>>,
         branch |-> branch]

getServerWithDefaults(server, host, protocol) ==
    IF Len(server) # 0 THEN server
    ELSE IF Len(host) = 0 \/ Len(protocol) = 0 THEN <<>>
    ELSE protocol \o <<":", "/", "/">> \o host


(***************************************************************************)
(* Build statuses of the drone client library.                             *)
(***************************************************************************)
StatusPending  == "pending"
StatusRunning  == "running"
StatusPassing  == "success"
StatusFailing  == "failure"
StatusKilled   == "killed"
StatusError    == "error"
StatusSkipped  == "skipped"
StatusDeclined == "declined"
StatusBlocked  == "blocked"

Bld(n, st, src) == [Number |-> n, Status |-> st, Source |-> src]

(***************************************************************************)
(* The inputs of a run: the entries of Repos and the other settings.       *)
(***************************************************************************)
RepoON    == <<"o", "/", "n">>
RepoONm   == <<"o", "/", "n", "@", "m">>
RepoON7   == <<"o", "/", "n", "@", "7">>
RepoPQm   == <<"p", "/", "q", "@", "m">>
RepoPQ12  == <<"p", "/", "q", "@", "1", "2">>
RepoBad   == <<"o", "n", "@", "m">>
RepoTwoAt == <<"o", "/", "n", "@", "m", "@", "7">>

RepoLists ==
    { <<>>,
      <<RepoON>>, <<RepoONm>>, <<RepoON7>>, <<RepoBad>>, <<RepoTwoAt>>,
      <<RepoONm, RepoPQ12>>, <<RepoON7, RepoPQm>>, <<RepoONm, RepoBad>> }

\* Server, pipeline.System.Host, pipeline.System.Proto
ServerInputs ==
    { <<<<>>, <<>>, <<>>>>,
      <<<<>>, <<"h">>, <<>>>>,
      <<<<>>, <<>>, <<"p">>>>,
      <<<<>>, <<"h">>, <<"p">>>>,
      <<<<"s">>, <<>>, <<>>>> }

TokenInputs == { <<>>, <<"t">> }

DeployInputs == { <<>>, <<"e">> }

(***************************************************************************)
(* The answers of the remote drone server.                                 *)
(***************************************************************************)
PollStatuses == {StatusPending, StatusRunning, StatusPassing, StatusFailing}

BlockStatuses ==
    {StatusRunning, StatusBlocked, StatusPassing, StatusFailing, StatusKilled,
     StatusError, StatusSkipped, StatusDeclined}

\* builds that BuildLast may return for a branch
LastBuildAnswers(branch) ==
    { Bld(3, StatusRunning, branch), Bld(3, StatusFailing, branch),
      Bld(4, StatusPending, branch), Bld(4, StatusPassing, branch) }

\* builds that Build may return for a number
BuildAnswers(num, statuses) == { Bld(num, st, <<"m">>) : st \in statuses }

\* lists that BuildList may return, most recent build first
ListAnswers ==
    { <<>>,
      <<Bld(5, StatusPassing, <<"m">>)>>,
      <<Bld(6, StatusFailing, <<"m">>)>>,
      <<Bld(6, StatusPassing, <<"x">>)>>,
      <<Bld(6, StatusFailing, <<"m">>), Bld(5, StatusPassing, <<"m">>)>>,
      <<Bld(6, StatusPassing, <<"x">>), Bld(5, StatusPassing, <<"m">>)>>,
      <<Bld(6, StatusPassing, <<"m">>), Bld(5, StatusPassing, <<"m">>)>> }

\* Number of the build a successful BuildRestart or Promote returns
NewBuildNumbers == {9}

(***************************************************************************)
(* Results of Validate and Execute.                                        *)
(***************************************************************************)
Running == [kind |-> "running", status |-> ""]
Nil     == [kind |-> "nil", status |-> ""]
Error(kind) == [kind |-> kind, status |-> ""]
ErrorStatus(kind, st) == [kind |-> kind, status |-> st]

(***************************************************************************)
(* The build parameters.  A parameter entry, a key, a value, a path and    *)
(* the name of an environment variable are sequences of tokens; "=" is a   *)
(* token of its own.  params is a function from keys to values.            *)
(***************************************************************************)
EmptyMap == [k \in {} |-> <<>>]

\* params[k] = v
Put(m, k, v) == [x \in (DOMAIN m) \cup {k} |-> IF x = k THEN v ELSE m[x]]

\* for k, v := range fileParams { params[k] = v }
PutAll(m, f) ==
    [x \in (DOMAIN m) \cup (DOMAIN f) |-> IF x \in DOMAIN f THEN f[x] ELSE m[x]]

\* strings.SplitN(p, "=", 2)
SplitN2(p) ==
    IF IndexOf(p, "=") = 0 THEN <<p>>
    ELSE <<SubSeq(p, 1, IndexOf(p, "=") - 1),
           SubSeq(p, IndexOf(p, "=") + 1, Len(p))>>

\* the loop of parseParams over the rest of the list.  files maps each
\* existing path to what godotenv.Read returns for it: ok and the pairs read
RECURSIVE parseParamsFrom(_, _, _)
parseParamsFrom(paramList, files, params) ==
    IF paramList = <<>> THEN [ok |-> TRUE, params |-> params]
    ELSE LET parts == SplitN2(Head(paramList)) IN
         IF Len(parts) = 2
         THEN parseParamsFrom(Tail(paramList), files,
                              Put(params, parts[1], parts[2]))
         ELSE IF parts[1] \notin DOMAIN files
         THEN [ok |-> FALSE, params |-> EmptyMap]
         ELSE IF ~files[parts[1]].ok
         THEN [ok |-> FALSE, params |-> EmptyMap]
         ELSE parseParamsFrom(Tail(paramList), files,
                              PutAll(params, files[parts[1]].pairs))

parseParams(paramList, files) == parseParamsFrom(paramList, files, EmptyMap)

\* the loop of Validate over ParamsEnv (lines 72-79)
RECURSIVE paramsFromEnv(_, _, _)
paramsFromEnv(keys, environ, params) ==
    IF keys = <<>> THEN [ok |-> TRUE, params |-> params]
    ELSE IF Head(keys) \notin DOMAIN environ
    THEN [ok |-> FALSE, params |-> params]
    ELSE paramsFromEnv(Tail(keys), environ,
                       Put(params, Head(keys), environ[Head(keys)]))

BuildNumberVar == <<"DRONE_BUILD_NUMBER">>
UpstreamKey    == <<"DRONE_UPSTREAM_BUILD_NUMBER">>

\* the upstream build number is put into the parsed parameters (lines 67-70)
PutUpstream(params, environ) ==
    IF BuildNumberVar \in DOMAIN environ
    THEN Put(params, UpstreamKey, environ[BuildNumberVar])
    ELSE params

\* lines 60-79 of Validate: the error, and params as the lines leave it
CollectParams(s) ==
    LET parsed == parseParams(s.Params, s.files) IN
    IF ~parsed.ok THEN [err |-> Error("parse_params"), params |-> EmptyMap]
    ELSE LET res == paramsFromEnv(s.ParamsEnv, s.environ,
                                  PutUpstream(parsed.params, s.environ)) IN
         [err |-> IF res.ok THEN Nil ELSE Error("param_from_env"),
          params |-> res.params]

(***************************************************************************)
(* Inputs of the parameter collection: the Params and ParamsEnv settings,  *)
(* the environment of the process and the files of its working directory.  *)
(***************************************************************************)
ParamUp5  == <<"DRONE_UPSTREAM_BUILD_NUMBER", "=", "5">>
ParamA1   == <<"A", "=", "1">>
ParamA1e2 == <<"A", "=", "1", "=", "2">>
PathF     == <<"f">>
PathG     == <<"g">>
PathH     == <<"h">>

\* f holds two pairs, h cannot be read as a dotenv file, g does not exist
FilesInput ==
    [p \in {PathF, PathH} |->
        IF p = PathF
        THEN [ok |-> TRUE,
              pairs |-> [k \in {UpstreamKey, <<"A">>} |->
                            IF k = UpstreamKey THEN <<"7">> ELSE <<"3">>]]
        ELSE [ok |-> FALSE, pairs |-> EmptyMap]]

ParamPool == {ParamUp5, ParamA1, ParamA1e2, PathF, PathG, PathH}

ParamLists ==
    {<<>>} \cup { <<p>> : p \in ParamPool }
           \cup { <<p, q>> : p \in ParamPool, q \in ParamPool }

ParamsEnvLists == { <<>>, <<UpstreamKey>>, <<<<"A">>>>, <<<<"B">>>> }

\* A is always set and B never; the build number of the upstream pipeline
\* and a variable named as the upstream key are set or not
Environs ==
    { [k \in {<<"A">>} \cup bn \cup up |->
          IF k = BuildNumberVar THEN <<"4", "2">>
          ELSE IF k = UpstreamKey THEN <<"8">>
          ELSE <<"2">>] :
      bn \in {{}, {BuildNumberVar}}, up \in {{}, {UpstreamKey}} }

ParamCase(pl, pe, env) ==
    [Params |-> pl, ParamsEnv |-> pe, environ |-> env]

\* every combination of the inputs
AllParamCases ==
    { ParamCase(pl, pe, env) :
        pl \in ParamLists, pe \in ParamsEnvLists, env \in Environs }

\* the combinations the runs of the whole plugin start from: one whose
\* parameters are collected without error, one per error of the collection
ParamCases ==
    { c \in AllParamCases :
        /\ c.environ = [k \in {<<"A">>, BuildNumberVar} |->
                           IF k = BuildNumberVar THEN <<"4", "2">> ELSE <<"2">>]
        /\ <<c.Params, c.ParamsEnv>> \in
              { <<<<ParamA1>>, <<>>>>, <<<<PathG>>, <<>>>>,
                <<<<ParamA1>>, <<<<"B">>>>>> } }

Init ==
    /\ \E repos \in RepoLists, srv \in ServerInputs, tok \in TokenInputs,
          w \in BOOLEAN, ls \in BOOLEAN, d \in DeployInputs, b \in BOOLEAN,
          c \in ParamCases :
          settings = [Repos |-> repos, Server |-> srv[1], Host |-> srv[2],
                      Proto |-> srv[3], Token |-> tok, Wait |-> w,
                      LastSuccessful |-> ls, Deploy |-> d, Block |-> b,
                      Params |-> c.Params, ParamsEnv |-> c.ParamsEnv,
                      environ |-> c.environ, files |-> FilesInput,
                      server |-> <<>>, params |-> EmptyMap]
    /\ pc = "validate"
    /\ err = Running
    /\ idx = 0
    /\ waiting = FALSE
    /\ timeoutFired = FALSE
    /\ tickReady = FALSE
    /\ ticks = 0
    /\ newBuild = 0
    /\ blockTimeoutFired = FALSE
    /\ blockTickReady = FALSE
    /\ blockTicks = 0
    /\ sigPending = FALSE
    /\ staleSigs = FALSE
    /\ panicking = FALSE
    /\ triggered = <<>>
    /\ blockResult = <<>>
    /\ calls = <<>>

\* mutant: wait and lastSuccessful are not checked against each other
ValidateResult_NoExclusion(s) ==
    IF Len(s.Token) = 0 THEN Error("no_token")
    ELSE IF Len(getServerWithDefaults(s.Server, s.Host, s.Proto)) = 0
         THEN Error("no_server")
    ELSE CollectParams(s).err

\* the error Validate returns for the settings, Nil when there is none
ValidateResult(s) ==
    IF Len(s.Token) = 0 THEN Error("no_token")
    ELSE IF Len(getServerWithDefaults(s.Server, s.Host, s.Proto)) = 0
         THEN Error("no_server")
    ELSE IF s.Wait /\ s.LastSuccessful THEN Error("wait_and_last_successful")
    ELSE CollectParams(s).err

\* Plugin.Validate; the caller runs Execute only when it returned nil
Validate ==
    /\ pc = "validate"
    /\ settings' = [settings EXCEPT
                      !.server = IF Len(settings.Token) = 0 THEN <<>>
                                 ELSE getServerWithDefaults(settings.Server,
                                          settings.Host, settings.Proto),
                      !.params = IF ValidateResult(settings) \in
                                      {Error("no_token"), Error("no_server"),
                                       Error("wait_and_last_successful")}
                                 THEN EmptyMap
                                 ELSE CollectParams(settings).params]
    /\ IF ValidateResult(settings) = Nil
       THEN /\ pc' = "entry"
            /\ idx' = 1
            /\ err' = err
       ELSE /\ pc' = "done"
            /\ idx' = idx
            /\ err' = ValidateResult(settings)
    /\ UNCHANGED <<waiting, timeoutFired, tickReady, ticks, newBuild,
                   blockTimeoutFired, blockTickReady, blockTicks, sigPending,
                   staleSigs, panicking, triggered, blockResult, calls>>

\* mutant: the deploy selector is not checked to be a number
EntryResult_NoNumericCheck(s, entry) ==
    LET t == parseRepoBranch(entry) IN
    IF Len(t.owner) = 0 \/ Len(t.name) = 0 THEN Error("parse_repo")
    ELSE IF Len(s.Deploy) # 0 /\ t.branch = <<>> THEN Error("deploy_no_branch")
    ELSE Nil

\* the error of the checks at the head of the loop body, Nil when there is none
EntryResult(s, entry) ==
    LET t == parseRepoBranch(entry) IN
    IF Len(t.owner) = 0 \/ Len(t.name) = 0 THEN Error("parse_repo")
    ELSE IF Len(s.Deploy) # 0 /\ t.branch = <<>> THEN Error("deploy_no_branch")
    ELSE IF Len(s.Deploy) # 0 /\ ~AtoiOk(t.branch) /\ ~s.LastSuccessful
         THEN Error("deploy_not_numeric")
    ELSE Nil

Target == parseRepoBranch(settings.Repos[idx])

\* head of the loop over Repos: return nil after the last entry; otherwise
\* the entry's checks, then waiting is cleared and the timers are armed
StartEntry ==
    /\ pc = "entry"
    /\ IF idx > Len(settings.Repos)
       THEN /\ pc' = "done"
            /\ err' = Nil
            /\ UNCHANGED <<waiting, timeoutFired, tickReady, ticks, calls>>
       ELSE /\ IF EntryResult(settings, settings.Repos[idx]) # Nil
               THEN /\ pc' = "done"
                    /\ err' = EntryResult(settings, settings.Repos[idx])
               ELSE /\ pc' = "poll"
                    /\ err' = err
            /\ waiting' = FALSE
            /\ timeoutFired' = FALSE
            /\ tickReady' = FALSE
            /\ ticks' = 0
            /\ calls' = <<>>
    /\ UNCHANGED <<settings, idx, newBuild, blockTimeoutFired, blockTickReady,
                   blockTicks, sigPending, staleSigs, panicking, triggered,
                   blockResult>>

(***************************************************************************)
(* One pass of the tick case of Execute's select.  A pass is described by  *)
(* the set of its possible outcomes: the client calls it made, the value   *)
(* of waiting afterwards and how it left the loop body:                    *)
(*   "continue"  back to the select (continue, or the end of the body)     *)
(*   "return"    Execute returns err                                       *)
(*   "trigger"   a trigger succeeded with build number nb                  *)
(***************************************************************************)
Call(op, num, ok, res) == [op |-> op, num |-> num, ok |-> ok, res |-> res]

Outcome(cs, ctl, w, e, nb) ==
    [calls |-> cs, ctl |-> ctl, waiting |-> w, err |-> e, nb |-> nb]

\* mutant: the check for a build in flight forgets the running status
IsRunningOrPending_PendingOnly(st) == st = StatusPending

IsRunningOrPending(st) == st = StatusRunning \/ st = StatusPending

\* mutant: the waiting state is entered whether or not wait is set
ShouldWait_IgnoreFlag(wait, w, st) == ~w /\ IsRunningOrPending(st)

\* lines 164 and 204: enter the waiting state instead of triggering
ShouldWait(wait, w, st) == wait /\ ~w /\ IsRunningOrPending(st)

\* mutant: the trigger is issued whatever the status of the build
ShouldTrigger_Always(wait, st) == TRUE

\* lines 170 and 228: issue the trigger
ShouldTrigger(wait, st) == ~IsRunningOrPending(st) \/ ~wait

\* mutant: the scan of the build list does not compare the branch
FindPassing_AnyBranch(builds, branch) ==
    LET hits == { i \in 1..Len(builds) : builds[i].Status = StatusPassing }
    IN  IF hits = {} THEN <<>>
        ELSE <<builds[CHOOSE i \in hits : \A j \in hits : i <= j]>>

\* the scan of the build list: the first build of the branch that passed,
\* as a sequence of zero or one build
FindPassing(builds, branch) ==
    LET hits == { i \in 1..Len(builds) :
                    builds[i].Source = branch /\ builds[i].Status = StatusPassing }
    IN  IF hits = {} THEN <<>>
        ELSE <<builds[CHOOSE i \in hits : \A j \in hits : i <= j]>>

\* mutant: a failed call is fatal also while waiting
FailedCall_AlwaysFatal(cs, w, kind) ==
    Outcome(cs, "return", w, Error(kind), 0)

\* a failed BuildLast, Promote or BuildRestart: retried when waiting, else fatal
FailedCall(cs, w, kind) ==
    IF w THEN Outcome(cs, "continue", w, Running, 0)
    ELSE Outcome(cs, "return", w, Error(kind), 0)

\* lines 170-192: the deploy trigger for the reference build b
PromoteOutcomes(cs, w, b) ==
    { FailedCall(Append(cs, Call("Promote", b.Number, FALSE, <<>>)), w,
                 "trigger_deploy") }
    \cup
    { Outcome(Append(cs, Call("Promote", b.Number, TRUE, <<Bld(n, StatusPending, b.Source)>>)),
              "trigger", w, Running, n) : n \in NewBuildNumbers }

\* mutant: the loop is not left after a successful restart
RestartOutcomes_NoBreak(cs, s, w, b) ==
    IF ShouldTrigger(s.Wait, b.Status)
    THEN { FailedCall(Append(cs, Call("BuildRestart", b.Number, FALSE, <<>>)), w,
                      "trigger_build") }
         \cup
         { Outcome(Append(cs, Call("BuildRestart", b.Number, TRUE, <<Bld(n, StatusPending, b.Source)>>)),
                   "continue", w, Running, n) : n \in NewBuildNumbers }
    ELSE { Outcome(cs, "continue", w, Running, 0) }

\* lines 228-250: the restart trigger for the build b
RestartOutcomes(cs, s, w, b) ==
    IF ShouldTrigger(s.Wait, b.Status)
    THEN { FailedCall(Append(cs, Call("BuildRestart", b.Number, FALSE, <<>>)), w,
                      "trigger_build") }
         \cup
         { Outcome(Append(cs, Call("BuildRestart", b.Number, TRUE, <<Bld(n, StatusPending, b.Source)>>)),
                   "trigger", w, Running, n) : n \in NewBuildNumbers }
    ELSE { Outcome(cs, "continue", w, Running, 0) }

\* lines 209-226: the fallback to the last passing build of the list
LastSuccessfulOutcomes(cs, s, w, t) ==
    { Outcome(Append(cs, Call("BuildList", 0, FALSE, <<>>)), "return", w,
              Error("build_list"), 0) }
    \cup
    UNION { LET cs2 == Append(cs, Call("BuildList", 0, TRUE, l))
                hit == FindPassing(l, t.branch)
            IN  IF hit = <<>>
                THEN { Outcome(cs2, "return", w, Error("no_last_successful"), 0) }
                ELSE RestartOutcomes(cs2, s, w, hit[1])
          : l \in ListAnswers }

\* lines 195-250: the plain rebuild, entered with the calls cs already made
PlainOutcomes(cs, s, w, t) ==
    { FailedCall(Append(cs, Call("BuildLast", 0, FALSE, <<>>)), w, "latest_build") }
    \cup
    UNION { LET cs1 == Append(cs, Call("BuildLast", 0, TRUE, <<b>>)) IN
            IF ShouldWait(s.Wait, w, b.Status)
            THEN { Outcome(cs1, "continue", TRUE, Running, 0) }
            ELSE IF s.LastSuccessful /\ b.Status # StatusPassing
            THEN LastSuccessfulOutcomes(cs1, s, w, t)
            ELSE RestartOutcomes(cs1, s, w, b)
          : b \in LastBuildAnswers(t.branch) }

\* lines 164-193: what the deploy path does with the reference build b
DeployDecision(cs, s, w, t, b) ==
    IF ShouldWait(s.Wait, w, b.Status)
    THEN { Outcome(cs, "continue", TRUE, Running, 0) }
    ELSE IF ShouldTrigger(s.Wait, b.Status)
    THEN PromoteOutcomes(cs, w, b)
    ELSE PlainOutcomes(cs, s, w, t)

\* lines 137-193: the deploy path
DeployOutcomes(s, w, t) ==
    IF s.LastSuccessful
    THEN { Outcome(<<Call("BuildList", 0, FALSE, <<>>)>>, "return", w,
                   Error("build_list"), 0) }
         \cup
         UNION { LET cs  == <<Call("BuildList", 0, TRUE, l)>>
                     hit == FindPassing(l, t.branch)
                 IN  IF hit = <<>>
                     THEN { Outcome(cs, "return", w, Error("no_last_successful"), 0) }
                     ELSE DeployDecision(cs, s, w, t, hit[1])
               : l \in ListAnswers }
    ELSE { Outcome(<<Call("Build", Atoi(t.branch), FALSE, <<>>)>>, "return", w,
                   Error("requested_build"), 0) }
         \cup
         UNION { DeployDecision(<<Call("Build", Atoi(t.branch), TRUE, <<b>>)>>, s, w, t, b)
               : b \in BuildAnswers(Atoi(t.branch), PollStatuses) }

\* lines 135-251: the whole tick case
TickOutcomes(s, w, t) ==
    IF Len(s.Deploy) # 0 THEN DeployOutcomes(s, w, t)
    ELSE PlainOutcomes(<<>>, s, w, t)

(***************************************************************************)
(* The tick loop of Execute: two timers and the select over them.          *)
(***************************************************************************)
blockVars == <<blockTimeoutFired, blockTickReady, blockTicks, sigPending,
               staleSigs, triggered, blockResult>>

\* the calls of one pass, as entries of the history
Tagged(cs, phase, k) ==
    [j \in 1..Len(cs) |->
        [target |-> idx, tick |-> k, phase |-> phase, op |-> cs[j].op,
         num |-> cs[j].num, ok |-> cs[j].ok, res |-> cs[j].res]]

\* the deadline of time.After(p.settings.Timeout) passes
TimeoutFires ==
    /\ pc = "poll"
    /\ ~timeoutFired
    /\ timeoutFired' = TRUE
    /\ UNCHANGED <<settings, pc, err, idx, waiting, tickReady, ticks, newBuild,
                   panicking, calls>>
    /\ UNCHANGED blockVars

\* the ticker of time.Tick(1 * time.Second) delivers a tick
TickFires ==
    /\ pc = "poll"
    /\ ~tickReady
    /\ ticks < MaxTicks
    /\ tickReady' = TRUE
    /\ UNCHANGED <<settings, pc, err, idx, waiting, timeoutFired, ticks,
                   newBuild, panicking, calls>>
    /\ UNCHANGED blockVars

\* mutant: the timeout case takes the deadline and goes on with the loop
SelectTimeout_Continue ==
    /\ pc = "poll"
    /\ timeoutFired
    /\ timeoutFired' = FALSE
    /\ UNCHANGED <<settings, pc, err, idx, waiting, tickReady, ticks, newBuild,
                   panicking, calls>>
    /\ UNCHANGED blockVars

\* case <-timeout (line 132)
SelectTimeout ==
    /\ pc = "poll"
    /\ timeoutFired
    /\ pc' = "done"
    /\ err' = Error("timeout")
    /\ UNCHANGED <<settings, idx, waiting, timeoutFired, tickReady, ticks,
                   newBuild, panicking, calls>>
    /\ UNCHANGED blockVars

\* case <-tick (line 135): one pass of the loop body
SelectTick ==
    /\ pc = "poll"
    /\ tickReady
    /\ \E o \in TickOutcomes(settings, waiting, Target) :
        /\ calls' = calls \o Tagged(o.calls, "poll", ticks + 1)
        /\ waiting' = o.waiting
        /\ triggered' = IF o.ctl = "trigger" THEN Append(triggered, idx)
                        ELSE triggered
        /\ IF o.ctl = "continue"
           THEN /\ UNCHANGED <<pc, err, idx, newBuild, blockTimeoutFired,
                               blockTickReady, blockTicks, sigPending>>
           ELSE IF o.ctl = "return"
           THEN /\ pc' = "done"
                /\ err' = o.err
                /\ UNCHANGED <<idx, newBuild, blockTimeoutFired,
                               blockTickReady, blockTicks, sigPending>>
           ELSE \* the trigger succeeded
                /\ pc' = "triggered"
                /\ newBuild' = o.nb
                /\ UNCHANGED <<err, idx, blockTimeoutFired, blockTickReady,
                               blockTicks, sigPending>>
    /\ tickReady' = FALSE
    /\ ticks' = ticks + 1
    /\ UNCHANGED <<settings, timeoutFired, staleSigs, panicking, blockResult>>

\* after the successful trigger (lines 184-191 and 242-249): with Block the
\* blocker is entered (lines 344-356: its timers are armed, its channel is
\* registered), without it break I goes on to the next entry
AfterTrigger ==
    /\ pc = "triggered"
    /\ IF settings.Block
       THEN /\ pc' = "block"
            /\ idx' = idx
            /\ calls' = <<>>
       ELSE /\ pc' = "entry"
            /\ idx' = idx + 1
            /\ calls' = calls
    /\ blockTimeoutFired' = FALSE
    /\ blockTickReady' = FALSE
    /\ blockTicks' = 0
    /\ sigPending' = FALSE
    /\ UNCHANGED <<settings, err, waiting, timeoutFired, tickReady, ticks,
                   newBuild, staleSigs, panicking, triggered, blockResult>>

(***************************************************************************)
(* blockUntilBuildIsFinished: two timers, the signal channel and the       *)
(* select over the three.                                                  *)
(***************************************************************************)
\* mutant: a skipped downstream build is not taken as finished
FailureStatuses_NoSkipped ==
    {StatusError, StatusKilled, StatusFailing, StatusDeclined}

FailureStatuses ==
    {StatusError, StatusKilled, StatusFailing, StatusDeclined, StatusSkipped}

\* what a status check does with the status of the build (lines 381-392)
StatusCheck(st) ==
    IF st \in FailureStatuses THEN ErrorStatus("build_failed", st)
    ELSE IF st = StatusPassing THEN Nil
    ELSE Running

\* mutant: Execute goes on to the next entry whatever the blocker returned
BlockReturn_IgnoreError(outcome, e) ==
    /\ blockResult' = Append(blockResult,
                             [target |-> idx, outcome |-> outcome, err |-> e])
    /\ staleSigs' = TRUE
    /\ sigPending' = FALSE
    /\ pc' = "entry"
    /\ idx' = idx + 1
    /\ err' = err
    /\ UNCHANGED <<settings, waiting, timeoutFired, tickReady, ticks, newBuild,
                   blockTimeoutFired, blockTickReady, blockTicks, panicking,
                   triggered>>

\* the blocker returns e to Execute (lines 185-191 and 243-249); the deferred
\* close(sigs) runs, and the channel stays registered with signal.Notify
BlockReturn(outcome, e) ==
    /\ blockResult' = Append(blockResult,
                             [target |-> idx, outcome |-> outcome, err |-> e])
    /\ staleSigs' = TRUE
    /\ sigPending' = FALSE
    /\ IF e = Nil
       THEN /\ pc' = "entry"
            /\ idx' = idx + 1
            /\ err' = err
       ELSE /\ pc' = "done"
            /\ idx' = idx
            /\ err' = e
    /\ UNCHANGED <<settings, waiting, timeoutFired, tickReady, ticks, newBuild,
                   blockTimeoutFired, blockTickReady, blockTicks, panicking,
                   triggered>>

BlockTimeoutFires ==
    /\ pc = "block"
    /\ ~blockTimeoutFired
    /\ blockTimeoutFired' = TRUE
    /\ UNCHANGED <<settings, pc, err, idx, waiting, timeoutFired, tickReady,
                   ticks, newBuild, blockTickReady, blockTicks, sigPending,
                   staleSigs, panicking, triggered, blockResult, calls>>

BlockTickFires ==
    /\ pc = "block"
    /\ ~blockTickReady
    /\ blockTicks < MaxBlockTicks
    /\ blockTickReady' = TRUE
    /\ UNCHANGED <<settings, pc, err, idx, waiting, timeoutFired, tickReady,
                   ticks, newBuild, blockTimeoutFired, blockTicks, sigPending,
                   staleSigs, panicking, triggered, blockResult, calls>>

\* SIGINT or SIGTERM arrives while a channel is registered.  The signal
\* goroutine sends, without blocking, to every registered channel: the send
\* to the open channel of the running blocker buffers the signal, the send to
\* a closed channel of an earlier blocker panics; the order of the two sends
\* is not fixed.
Signal ==
    /\ ~panicking
    /\ pc \in {"entry", "poll", "triggered", "block"}
    /\ \/ /\ pc = "block"
          /\ ~staleSigs
          /\ ~sigPending
          /\ sigPending' = TRUE
          /\ panicking' = FALSE
       \/ /\ staleSigs
          /\ panicking' = TRUE
          /\ sigPending' \in (IF pc = "block" THEN {sigPending, TRUE}
                              ELSE {sigPending})
    /\ UNCHANGED <<settings, pc, err, idx, waiting, timeoutFired, tickReady,
                   ticks, newBuild, blockTimeoutFired, blockTickReady,
                   blockTicks, staleSigs, triggered, blockResult, calls>>

\* the panic of the signal goroutine ends the process: Execute never returns
Crash ==
    /\ panicking
    /\ pc \notin {"done", "crashed"}
    /\ pc' = "crashed"
    /\ UNCHANGED <<settings, err, idx, waiting, timeoutFired, tickReady, ticks,
                   newBuild, blockTimeoutFired, blockTickReady, blockTicks,
                   sigPending, staleSigs, panicking, triggered, blockResult,
                   calls>>

\* case <-sigs (line 360)
SelectSignal ==
    /\ pc = "block"
    /\ sigPending
    /\ \E ok \in BOOLEAN :
        /\ calls' = calls \o Tagged(<<Call("BuildCancel", newBuild, ok, <<>>)>>,
                                    "block", blockTicks)
        /\ IF ok THEN BlockReturn("cancelled", Nil)
                 ELSE BlockReturn("cancel_failed", Error("cancel_failed"))

\* case <-timeout (line 371)
SelectBlockTimeout ==
    /\ pc = "block"
    /\ blockTimeoutFired
    /\ BlockReturn("timeout", Error("block_timeout"))
    /\ UNCHANGED calls

\* case <-tick (line 375)
SelectBlockTick ==
    /\ pc = "block"
    /\ blockTickReady
    /\ \/ /\ calls' = calls \o Tagged(<<Call("Build", newBuild, FALSE, <<>>)>>,
                                      "block", blockTicks + 1)
          /\ BlockReturn("fetch_error", Error("block_fetch"))
       \/ \E b \in BuildAnswers(newBuild, BlockStatuses) :
          /\ calls' = calls \o Tagged(<<Call("Build", newBuild, TRUE, <<b>>)>>,
                                      "block", blockTicks + 1)
          /\ IF StatusCheck(b.Status) = Running
             THEN /\ blockTickReady' = FALSE
                  /\ blockTicks' = blockTicks + 1
                  /\ UNCHANGED <<settings, pc, err, idx, waiting, timeoutFired,
                                 tickReady, ticks, newBuild, blockTimeoutFired,
                                 sigPending, staleSigs, panicking, triggered,
                                 blockResult>>
             ELSE IF StatusCheck(b.Status) = Nil
             THEN BlockReturn("success", Nil)
             ELSE BlockReturn("failure", StatusCheck(b.Status))

Next ==
    \/ Validate
    \/ StartEntry
    \/ TimeoutFires
    \/ TickFires
    \/ SelectTimeout
    \/ SelectTick
    \/ AfterTrigger
    \/ BlockTimeoutFires
    \/ BlockTickFires
    \/ Signal
    \/ Crash
    \/ SelectSignal
    \/ SelectBlockTimeout
    \/ SelectBlockTick

Spec == Init /\ [][Next]_vars

(***************************************************************************)
(* Vocabulary of the properties.                                           *)
(***************************************************************************)
TriggerOps == {"BuildRestart", "Promote"}
FetchOps   == {"BuildLast", "Build", "BuildList"}

\* the calls of the history made by the tick loop
PollCalls == { j \in 1..Len(calls) : calls[j].phase = "poll" }

Busy(st) == st \in {StatusRunning, StatusPending}

PlainRebuild == Len(settings.Deploy) = 0

\* BuildLast answered with a build on this call
FetchedLast(j) == calls[j].op = "BuildLast" /\ calls[j].ok

RestartsAt(k) ==
    { j \in PollCalls : calls[j].tick = k /\ calls[j].op = "BuildRestart" }

Restarts == { j \in PollCalls : calls[j].op = "BuildRestart" }

C1_NoRestartWhileBusy ==
    \A j \in PollCalls :
        FetchedLast(j) /\ Busy(calls[j].res[1].Status)
            => RestartsAt(calls[j].tick) = {}

C1_RestartWhenFree ==
    \A j \in PollCalls :
        FetchedLast(j) /\ ~Busy(calls[j].res[1].Status)
            => Cardinality(RestartsAt(calls[j].tick)) = 1

\* C1 as stated: on the plain-rebuild path with wait, no restart is issued on
\* a tick whose fetched build is running or pending, a restart is issued on
\* the first tick whose fetched build is neither, and the restart is issued
\* exactly once.
C1_RestartIssuedOnce ==
    (PlainRebuild /\ settings.Wait) =>
        /\ C1_NoRestartWhileBusy
        /\ C1_RestartWhenFree
        /\ Cardinality(Restarts) <= 1

\* C1 as amended: on the plain-rebuild path with wait, no restart is issued on
\* a tick whose fetched build is running or pending; exactly one restart is
\* issued on every tick whose fetched build is neither, the first such tick
\* included, and on no other tick; at most one restart succeeds and it ends
\* the loop; a second restart is issued only after an earlier one failed
\* while waiting.
C1_RestartOnFirstFreeTick ==
    (PlainRebuild /\ settings.Wait) =>
        /\ C1_NoRestartWhileBusy
        /\ C1_RestartWhenFree
        /\ \A j \in Restarts :
              /\ \E i \in PollCalls :
                    /\ calls[i].tick = calls[j].tick
                    /\ FetchedLast(i)
                    /\ ~Busy(calls[i].res[1].Status)
              /\ calls[j].ok => j = Len(calls) /\ pc # "poll"
              /\ j < Len(calls) => ~calls[j].ok /\ waiting

\* the example of C1: running or pending on ticks 1 and 2, a build that is
\* neither on tick 3, and the one restart of the run is issued on tick 3
C1_Witness ==
    /\ PlainRebuild /\ settings.Wait
    /\ \E j \in PollCalls :
          calls[j].tick = 1 /\ FetchedLast(j) /\ Busy(calls[j].res[1].Status)
    /\ \E j \in PollCalls :
          calls[j].tick = 2 /\ FetchedLast(j) /\ Busy(calls[j].res[1].Status)
    /\ \E j \in PollCalls :
          calls[j].tick = 3 /\ FetchedLast(j) /\ ~Busy(calls[j].res[1].Status)
    /\ Restarts = RestartsAt(3)
    /\ \E j \in Restarts : calls[j].ok

\* the tick loop has fetched, and every fetch so far was answered with a
\* running build
AllRunning ==
    /\ calls # <<>>
    /\ \A j \in 1..Len(calls) :
          /\ calls[j].phase = "poll"
          /\ calls[j].op \in FetchOps =>
                /\ calls[j].op # "BuildList"
                /\ calls[j].ok
                /\ calls[j].res[1].Status = StatusRunning

\* C2: with wait, while the server answers running on every tick no trigger
\* call is issued, and the only way the entry's processing ends is the
\* timeout error of the poll deadline.
C2_AlwaysRunningTimesOut ==
    (settings.Wait /\ AllRunning) =>
        /\ \A j \in 1..Len(calls) : calls[j].op \notin TriggerOps
        /\ pc \in {"poll", "done", "crashed"}
        /\ pc = "done" => err = Error("timeout") /\ timeoutFired
        /\ pc = "poll" => waiting

C2_Witness ==
    /\ settings.Wait /\ AllRunning
    /\ \E j \in 1..Len(calls) : calls[j].tick = 2
    /\ pc = "done"
    /\ err = Error("timeout")

\* C3: with a deploy environment configured, getLastBuild and restartBuild
\* are never called; every tick resolves the reference build the deploy way
\* and the only trigger is promoteBuild.
C3_DeployNeverRebuilds ==
    Len(settings.Deploy) # 0 =>
        \A j \in 1..Len(calls) : calls[j].op \notin {"BuildLast", "BuildRestart"}

\* C4: while the blocker waits, a delivered signal results in exactly one
\* BuildCancel call, for the number of the triggered build, and the blocker
\* ends as cancelled, also when a status-check tick that observes a passing
\* build is pending together with the signal.  Stated for the returns of the
\* blocker with nil while the signal is buffered, the deadline has not fired
\* and no closed channel is registered: each of them is the cancellation.
C4_SignalCancels ==
    [][ (/\ pc = "block"
         /\ sigPending
         /\ ~blockTimeoutFired
         /\ ~panicking
         /\ pc' = "entry")
        => /\ Len(blockResult') = Len(blockResult) + 1
           /\ blockResult'[Len(blockResult')].outcome = "cancelled"
           /\ Cardinality({ j \in 1..Len(calls') :
                              /\ calls'[j].op = "BuildCancel"
                              /\ calls'[j].num = newBuild }) = 1
      ]_vars

\* C5: a run in which the blocker was cancelled by a signal does not go on
\* to a later entry and does not return nil.
C5_CancelledRunFails ==
    \A j \in 1..Len(blockResult) :
        blockResult[j].outcome \in {"cancelled", "cancel_failed"}
            => /\ idx = blockResult[j].target
               /\ pc = "done" => err # Nil

\* entry j was triggered and, with Block, its blocker returned nil
ProcessedOk(j) ==
    /\ \E a \in 1..Len(triggered) : triggered[a] = j
    /\ settings.Block =>
          \E b \in 1..Len(blockResult) :
              blockResult[b].target = j /\ blockResult[b].err = Nil

\* C6: entries are processed in list order, one at a time.  A step that makes
\* remote client calls makes them for the current entry, while Execute has
\* not returned, and every earlier entry was triggered (and, with Block, its
\* blocker returned nil); once Execute has returned an error, or nil, no
\* further call is made and no further entry is started.
C6_SequentialTargets ==
    [][ /\ idx' \in {idx, idx + 1}
        /\ (\A j \in 1..(idx' - 1) : ProcessedOk(j)')
        /\ (calls' # calls /\ calls' # <<>>) =>
              /\ err = Running
              /\ pc \in {"poll", "block"}
              /\ \A j \in 1..Len(calls') : calls'[j].target = idx
        /\ err # Running => UNCHANGED <<err, idx, calls, triggered>>
      ]_vars

\* the second entry is polled after the blocker of the first returned nil
C6_Witness ==
    /\ idx = 2
    /\ pc = "poll"
    /\ calls # <<>>
    /\ settings.Block
    /\ Len(blockResult) = 1

\* C7: at most one trigger call succeeds for an entry: a successful trigger
\* is the last call of the tick loop, which is left at once; the blocker that
\* may follow only fetches or cancels the triggered build.
C7_OneTriggerPerTarget ==
    /\ \A j \in PollCalls :
          (calls[j].op \in TriggerOps /\ calls[j].ok) =>
              /\ j = Len(calls)
              /\ pc \in {"triggered", "entry", "done", "crashed"}
    /\ \A a, b \in 1..Len(triggered) : triggered[a] = triggered[b] => a = b
    /\ pc = "poll" => \A a \in 1..Len(triggered) : triggered[a] # idx
    /\ pc = "block" =>
          \A j \in 1..Len(calls) :
              /\ calls[j].phase = "block"
              /\ calls[j].op \in {"Build", "BuildCancel"}
              /\ calls[j].num = newBuild

\* a trigger succeeded on the first tick, before the deadline, and the loop
\* was left for the next entry
C7_Witness ==
    /\ pc = "entry"
    /\ ~timeoutFired
    /\ ticks = 1
    /\ calls # <<>>
    /\ calls[Len(calls)].op \in TriggerOps
    /\ calls[Len(calls)].ok

NoPassingOnBranch(list, branch) ==
    ~ \E i \in 1..Len(list) :
          list[i].Source = branch /\ list[i].Status = StatusPassing

BranchOf(j) == parseRepoBranch(settings.Repos[calls[j].target]).branch

\* the build list was fetched and holds no passing build of the branch
ListWithoutPassing(j) ==
    /\ calls[j].op = "BuildList"
    /\ calls[j].ok
    /\ NoPassingOnBranch(calls[j].res, BranchOf(j))

\* C8: with lastSuccessful, when the fetched build list holds no passing
\* build of the entry's branch, Execute returns the error "unable to get
\* last successful build" and no trigger call was issued, on the deploy path
\* and on the plain-rebuild path.
C8_NoSuccessfulBuildIsFatal ==
    settings.LastSuccessful =>
        \A j \in PollCalls :
            ListWithoutPassing(j) =>
                /\ j = Len(calls)
                /\ pc = "done"
                /\ err = Error("no_last_successful")
                /\ \A i \in 1..Len(calls) : calls[i].op \notin TriggerOps

\* on the deploy path the list holds a passing build, but of another branch
C8_Witness ==
    /\ settings.LastSuccessful
    /\ Len(settings.Deploy) # 0
    /\ \E j \in PollCalls :
          /\ ListWithoutPassing(j)
          /\ \E i \in 1..Len(calls[j].res) : calls[j].res[i].Status = StatusPassing
    /\ err = Error("no_last_successful")

FetchErrKinds == {"latest_build", "requested_build", "build_list"}

\* C9: a failed fetch call of the tick loop ends the run exactly when waiting
\* is false; while waiting is true the loop goes on to the next tick, on the
\* plain-rebuild path and on the deploy path.
C9_FetchErrorFatalIffNotWaiting ==
    \A j \in PollCalls :
        (calls[j].op \in FetchOps /\ ~calls[j].ok) =>
            IF waiting
            THEN ~(pc = "done" /\ err.kind \in FetchErrKinds)
            ELSE pc = "done" /\ err.kind \in FetchErrKinds

TriggerErrKinds == {"trigger_build", "trigger_deploy"}

\* C10: a failed trigger call ends the run exactly when waiting is false;
\* while waiting is true the failure is swallowed, the loop goes on, and only
\* the deadline, a later success or a later fatal error ends it.
C10_TriggerErrorFatalIffNotWaiting ==
    /\ \A j \in PollCalls :
          (calls[j].op \in TriggerOps /\ ~calls[j].ok) =>
              IF waiting
              THEN /\ err.kind \notin TriggerErrKinds
                   /\ j = Len(calls) =>
                         \/ pc \in {"poll", "crashed"}
                         \/ pc = "done" /\ err = Error("timeout")
              ELSE /\ j = Len(calls)
                   /\ pc = "done"
                   /\ err.kind \in TriggerErrKinds
    /\ (pc = "done" /\ err.kind \in TriggerErrKinds) =>
          /\ ~waiting
          /\ calls # <<>>
          /\ calls[Len(calls)].op \in TriggerOps
          /\ ~calls[Len(calls)].ok

\* a trigger failed while waiting and was issued again on a later tick
C10_Witness ==
    /\ waiting
    /\ \E i, j \in PollCalls :
          /\ i < j
          /\ calls[i].op \in TriggerOps /\ ~calls[i].ok
          /\ calls[j].op \in TriggerOps
          /\ calls[i].tick < calls[j].tick

(***************************************************************************)
(* Configuration errors of the entries.                                    *)
(***************************************************************************)
\* some entry of the list fails the checks at the head of the loop body
SomeEntryRejected ==
    \E i \in 1..Len(settings.Repos) :
        EntryResult(settings, settings.Repos[i]) # Nil

\* C11: when some entry of the list, at any position, is malformed, lacks the
\* selector a deploy needs, or has a non-numeric deploy selector without
\* lastSuccessful, the run makes no fetch call and no trigger call for any
\* target.
C11_ConfigErrorsBeforeAnyCall ==
    SomeEntryRejected => calls = <<>> /\ triggered = <<>>

\* C12: the signal registration made at the entry of the blocker is removed
\* on every way out of it: once a blocker has returned, a signal is no longer
\* routed to the blocker's channel, and it neither panics the process nor
\* ends the later processing.
C12_SignalAfterBlockerHarmless ==
    blockResult # <<>> => ~panicking /\ pc # "crashed"

(***************************************************************************)
(* The status checks of the blocker.                                       *)
(***************************************************************************)
\* this step is a status-check tick of the blocker whose fetch was answered
StatusCheckStep ==
    /\ Len(calls') > Len(calls)
    /\ SubSeq(calls', 1, Len(calls)) = calls
    /\ calls'[Len(calls) + 1].phase = "block"
    /\ calls'[Len(calls) + 1].op = "Build"
    /\ calls'[Len(calls) + 1].ok

\* the status the answered fetch of the step carries
CheckedStatus == calls'[Len(calls) + 1].res[1].Status

\* C13: on a status-check tick of the blocker a passing status ends it with
\* success; a status among error, killed, failing, declined and skipped ends
\* it with a failure that carries exactly that status and fails the whole
\* run; any other status leaves the blocker running, with no cancel call and
\* no outcome.
C13_StatusCheckOutcome ==
    [][StatusCheckStep =>
        /\ Len(calls') = Len(calls) + 1
        /\ IF CheckedStatus = StatusPassing
           THEN /\ blockResult' = Append(blockResult,
                       [target |-> idx, outcome |-> "success", err |-> Nil])
                /\ pc' = "entry"
                /\ err' = err
           ELSE IF CheckedStatus \in {StatusError, StatusKilled, StatusFailing,
                                      StatusDeclined, StatusSkipped}
           THEN /\ blockResult' = Append(blockResult,
                       [target |-> idx, outcome |-> "failure",
                        err |-> ErrorStatus("build_failed", CheckedStatus)])
                /\ pc' = "done"
                /\ err' = ErrorStatus("build_failed", CheckedStatus)
           ELSE /\ blockResult' = blockResult
                /\ pc' = "block"
                /\ err' = err]_vars

\* a status check answered blocked left the blocker running, and the next
\* one, answered skipped, failed the run with that status
C13_Witness ==
    /\ pc = "done"
    /\ err = ErrorStatus("build_failed", StatusSkipped)
    /\ Len(calls) = 2
    /\ calls[1].phase = "block" /\ calls[1].op = "Build" /\ calls[1].ok
    /\ calls[1].res[1].Status = StatusBlocked
    /\ calls[2].phase = "block" /\ calls[2].op = "Build" /\ calls[2].ok
    /\ calls[2].res[1].Status = StatusSkipped
    /\ blockResult # <<>>
    /\ blockResult[Len(blockResult)].outcome = "failure"

(***************************************************************************)
(* Target parsing.                                                         *)
(***************************************************************************)
Count(s, c) == Cardinality({ k \in 1..Len(s) : s[k] = c })

\* the entry up to its first "@", the whole entry when it has none
RepoPart(e) ==
    IF Count(e, "@") = 0 THEN e ELSE SubSeq(e, 1, IndexOf(e, "@") - 1)

\* owner/name, owner/name@branch or owner/name@123
WellFormedEntry(e) ==
    /\ Count(e, "@") <= 1
    /\ Count(RepoPart(e), "/") = 1
    /\ IndexOf(RepoPart(e), "/") > 1
    /\ IndexOf(RepoPart(e), "/") < Len(RepoPart(e))

MalformedEntry(e) == Count(RepoPart(e), "/") # 1 \/ Count(e, "@") > 1

\* the triple a well-formed entry stands for
EntryTriple(e) ==
    [owner  |-> SubSeq(e, 1, IndexOf(e, "/") - 1),
     name   |-> SubSeq(RepoPart(e), IndexOf(e, "/") + 1, Len(RepoPart(e))),
     branch |-> IF Count(e, "@") = 0 THEN <<>>
                ELSE SubSeq(e, IndexOf(e, "@") + 1, Len(e))]

\* C14: an entry owner/name, owner/name@branch or owner/name@123 is parsed
\* into owner, name and selector, the selector empty without "@"; an entry
\* without exactly one "/" in its repository part, and an entry with more
\* than one "@", is rejected with the parse error and no target is processed
\* from it.
C14_TargetParsing ==
    \A i \in 1..Len(settings.Repos) :
        LET e == settings.Repos[i] IN
        /\ WellFormedEntry(e) => parseRepoBranch(e) = EntryTriple(e)
        /\ (MalformedEntry(e) /\ idx = i) =>
              /\ pc \notin {"poll", "triggered", "block"}
              /\ pc = "done" => err = Error("parse_repo")
              /\ \A j \in 1..Len(calls) : calls[j].target # i

(***************************************************************************)
(* The parameter collection on its own: Validate on every combination of   *)
(* the parameter inputs, the other settings being valid.                   *)
(***************************************************************************)
InitParams ==
    /\ \E c \in AllParamCases :
          settings = [Repos |-> <<RepoON>>, Server |-> <<>>, Host |-> <<"h">>,
                      Proto |-> <<"p">>, Token |-> <<"t">>, Wait |-> FALSE,
                      LastSuccessful |-> FALSE, Deploy |-> <<>>,
                      Block |-> FALSE,
                      Params |-> c.Params, ParamsEnv |-> c.ParamsEnv,
                      environ |-> c.environ, files |-> FilesInput,
                      server |-> <<>>, params |-> EmptyMap]
    /\ pc = "validate"
    /\ err = Running
    /\ idx = 0
    /\ waiting = FALSE
    /\ timeoutFired = FALSE
    /\ tickReady = FALSE
    /\ ticks = 0
    /\ newBuild = 0
    /\ blockTimeoutFired = FALSE
    /\ blockTickReady = FALSE
    /\ blockTicks = 0
    /\ sigPending = FALSE
    /\ staleSigs = FALSE
    /\ panicking = FALSE
    /\ triggered = <<>>
    /\ blockResult = <<>>
    /\ calls = <<>>

NextParams == Validate

SpecParams == InitParams /\ [][NextParams]_vars

\* the parameters given explicitly: the literal and file-sourced ones in the
\* order of Params, then the ones named in ParamsEnv
ExplicitParams(s) ==
    paramsFromEnv(s.ParamsEnv, s.environ,
                  parseParams(s.Params, s.files).params).params

\* C15: the upstream build number of the environment is inserted before
\* every other insertion, so the mapping Validate resolves is the explicit
\* parameters laid over it: a literal, file-sourced or params-from-env
\* parameter with the key DRONE_UPSTREAM_BUILD_NUMBER wins.
C15_ExplicitUpstreamWins ==
    pc = "entry" =>
        settings.params =
            PutAll(PutUpstream(EmptyMap, settings.environ),
                   ExplicitParams(settings))

\* C16: whatever the other settings are, Validate fails when wait and
\* lastSuccessful are both true; no run of Execute starts with both true.
C16_WaitExcludesLastSuccessful ==
    (settings.Wait /\ settings.LastSuccessful) =>
        /\ pc \in {"validate", "done"}
        /\ pc = "done" => err \notin {Nil, Running}
        /\ idx = 0
        /\ calls = <<>>

\* Validate has rejected valid token, server and parameters because wait and
\* lastSuccessful are both true
C16_Witness ==
    /\ settings.Wait /\ settings.LastSuccessful
    /\ pc = "done"
    /\ err = Error("wait_and_last_successful")
    /\ CollectParams(settings).err = Nil

(***************************************************************************)
(* Resolution of the reference build on the deploy path.                   *)
(***************************************************************************)
\* the selector of the entry the call j was made for
SelectorOf(j) == parseRepoBranch(settings.Repos[calls[j].target]).branch

\* b is the first build of the list on the branch with status passing
FirstPassingOn(list, branch, b) ==
    \E k \in 1..Len(list) :
        /\ list[k] = b
        /\ list[k].Source = branch /\ list[k].Status = StatusPassing
        /\ \A h \in 1..(k - 1) :
              ~(list[h].Source = branch /\ list[h].Status = StatusPassing)

\* the entry is well formed and its selector is not a number
NonNumericSelector(e) ==
    /\ parseRepoBranch(e).owner # <<>>
    /\ parseRepoBranch(e).branch # <<>>
    /\ \E k \in 1..Len(parseRepoBranch(e).branch) :
          parseRepoBranch(e).branch[k] \notin Digits

\* C17: on the deploy path, without lastSuccessful the build promoted is the
\* one fetched by the number of the selector and the build list is never
\* asked for; with lastSuccessful the build promoted is the first build of
\* the list whose branch is the selector and whose status is passing; an
\* entry with a non-numeric selector and lastSuccessful false is rejected
\* with no client call made for it.
C17_DeployResolution ==
    Len(settings.Deploy) # 0 =>
        /\ \A j \in PollCalls :
              calls[j].op = "Promote" =>
                  /\ j > 1
                  /\ calls[j - 1].tick = calls[j].tick
                  /\ calls[j - 1].ok
                  /\ IF settings.LastSuccessful
                     THEN /\ calls[j - 1].op = "BuildList"
                          /\ \E b \in { calls[j - 1].res[k] :
                                           k \in 1..Len(calls[j - 1].res) } :
                                /\ FirstPassingOn(calls[j - 1].res,
                                                  SelectorOf(j), b)
                                /\ calls[j].num = b.Number
                     ELSE /\ calls[j - 1].op = "Build"
                          /\ calls[j - 1].num = Atoi(SelectorOf(j))
                          /\ calls[j].num = calls[j - 1].res[1].Number
        /\ ~settings.LastSuccessful =>
              \A j \in PollCalls : calls[j].op # "BuildList"
        /\ \A i \in 1..Len(settings.Repos) :
              (/\ ~settings.LastSuccessful
               /\ NonNumericSelector(settings.Repos[i])
               /\ idx = i) =>
                  /\ pc \notin {"poll", "triggered", "block"}
                  /\ pc = "done" => err = Error("deploy_not_numeric")
                  /\ \A j \in 1..Len(calls) : calls[j].target # i

\* with lastSuccessful the list held a failing build in front of the passing
\* one of the branch, and the passing one was promoted
C17_Witness ==
    /\ Len(settings.Deploy) # 0
    /\ settings.LastSuccessful
    /\ Len(calls) = 2
    /\ calls[1].op = "BuildList" /\ calls[1].ok
    /\ Len(calls[1].res) = 2
    /\ calls[1].res[1].Status = StatusFailing
    /\ calls[2].op = "Promote" /\ calls[2].ok
    /\ calls[2].num = calls[1].res[2].Number

(***************************************************************************)
(* Termination.  The timers fire, and a select whose timeout case is ready *)
(* on every pass takes it on some pass (select chooses among the ready     *)
(* cases at random).                                                       *)
(***************************************************************************)
\* the runs start from valid token, server and parameters
InitFair ==
    /\ \E repos \in {<<RepoONm>>, <<RepoON7, RepoPQm>>},
          w \in BOOLEAN, ls \in BOOLEAN, d \in DeployInputs, b \in BOOLEAN :
          settings = [Repos |-> repos, Server |-> <<>>, Host |-> <<"h">>,
                      Proto |-> <<"p">>, Token |-> <<"t">>, Wait |-> w,
                      LastSuccessful |-> ls, Deploy |-> d, Block |-> b,
                      Params |-> <<ParamA1>>, ParamsEnv |-> <<>>,
                      environ |-> [k \in {BuildNumberVar} |-> <<"4", "2">>],
                      files |-> FilesInput,
                      server |-> <<>>, params |-> EmptyMap]
    /\ pc = "validate"
    /\ err = Running
    /\ idx = 0
    /\ waiting = FALSE
    /\ timeoutFired = FALSE
    /\ tickReady = FALSE
    /\ ticks = 0
    /\ newBuild = 0
    /\ blockTimeoutFired = FALSE
    /\ blockTickReady = FALSE
    /\ blockTicks = 0
    /\ sigPending = FALSE
    /\ staleSigs = FALSE
    /\ panicking = FALSE
    /\ triggered = <<>>
    /\ blockResult = <<>>
    /\ calls = <<>>

FairSpec ==
    /\ InitFair
    /\ [][Next]_vars
    /\ WF_vars(TimeoutFires)
    /\ WF_vars(SelectTimeout)
    /\ WF_vars(BlockTimeoutFires)
    /\ WF_vars(SelectBlockTimeout)

\* the ways the blocker ends
BlockOutcomes ==
    {"success", "failure", "fetch_error", "timeout", "cancelled",
     "cancel_failed"}

\* C18: when the timers fire and every client call returns, the processing
\* of each target terminates: the tick loop is left (by a successful
\* trigger, a fatal error or the poll timeout) and the blocker is left (by
\* success, downstream failure, fetch error, block timeout or cancellation).
C18_TargetsTerminate ==
    /\ (pc = "poll") ~> (pc # "poll")
    /\ (pc = "block") ~> (pc # "block")
    /\ [](\A k \in 1..Len(blockResult) :
             blockResult[k].outcome \in BlockOutcomes)

\* a run whose tick loop was left by a trigger after a tick spent waiting
\* and whose blocker was ended by its timeout after a status check
C18_Witness ==
    /\ pc = "done"
    /\ err = Error("block_timeout")
    /\ waiting
    /\ blockTicks >= 1
    /\ blockResult # <<>>
    /\ blockResult[Len(blockResult)].outcome = "timeout"

(***************************************************************************)
(* Runs without wait.                                                      *)
(***************************************************************************)
PollTriggers == { j \in PollCalls : calls[j].op \in TriggerOps }

\* C19: with wait false the waiting flag is never set; the trigger is issued
\* on the first tick, as soon as the reference build is resolved and
\* whatever its status; a fetch or trigger call that fails on that tick ends
\* the run with its error; at most one trigger call is made for the target.
C19_NoWaitTriggersAtOnce ==
    ~settings.Wait =>
        /\ ~waiting
        /\ Cardinality(PollTriggers) <= 1
        /\ \A j \in PollCalls : calls[j].tick = 1
        /\ PollCalls # {} => pc # "poll"
        /\ \A j \in PollCalls :
              ~calls[j].ok =>
                  /\ j = Len(calls)
                  /\ pc = "done"
                  /\ err.kind \in FetchErrKinds \cup TriggerErrKinds
        /\ (/\ PollCalls # {}
            /\ \A j \in PollCalls :
                  calls[j].op \in FetchOps =>
                      calls[j].ok /\ ~ListWithoutPassing(j))
              => /\ PollTriggers = {Len(calls)}
                 /\ \A j \in PollTriggers : calls[j].tick = 1

\* without wait the build fetched on the first tick was running and the
\* restart was issued on that tick all the same
C19_Witness ==
    /\ ~settings.Wait
    /\ PlainRebuild
    /\ Len(calls) = 2
    /\ FetchedLast(1)
    /\ calls[1].res[1].Status = StatusRunning
    /\ calls[2].op = "BuildRestart" /\ calls[2].ok
    /\ calls[2].tick = 1 /\ calls[2].phase = "poll"

\* C20: once the poll deadline of a target has fired, no fetch or trigger
\* call is made for it in the tick loop any more: a tick that is ready
\* together with the fired deadline is not processed.
C20_NoCallAfterDeadline ==
    [][(pc = "poll" /\ timeoutFired) => (calls' = calls /\ ticks' = ticks)]_vars

====
